---- MODULE Spec2Model ----
(***************************************************************************)
(* Model of aws/provision-eks-cluster/index.ts: a Pulumi program that      *)
(* reads five configuration keys, declares a VPC, six subnets, two IAM     *)
(* roles with their policy attachments, an EKS cluster and a node group,   *)
(* and exports a kubeconfig derived from three cluster attributes.         *)
(*                                                                         *)
(* The script body runs synchronously, one declaration after the other     *)
(* (pc); the provisioning engine then resolves the cluster's attributes    *)
(* in some order, and the callback given to pulumi.all(...).apply runs     *)
(* once all of them are known.                                             *)
(***************************************************************************)
EXTENDS Integers, Sequences, FiniteSets, TLC

VARIABLES pc, config, params, resources, privateSubnet, publicSubnet,
          exports, resolved, clusterFailed, kubeconfig, applyCount

vars == <<pc, config, params, resources, privateSubnet, publicSubnet,
          exports, resolved, clusterFailed, kubeconfig, applyCount>>

(***************************************************************************)
(* Bounds of the explored configuration space.                             *)
(***************************************************************************)
MaxSize == 4

\* An optional value: <<>> is undefined (key absent), <<v>> is the value v.
Absent == <<>>
Some(v) == <<v>>
IsSet(o) == Len(o) = 1
Val(o) == o[1]

SizeInputs == {Absent} \cup {Some(n) : n \in (0 - 1)..MaxSize}
InstanceTypeInputs == {Absent, Some(""), Some("m5.large")}
CidrInputs == {Absent, Some(""), Some("10.0.0.0/8"), Some("10.0.0.0/24"),
               Some("192.168.0.0/16")}

ConfigInputs == [minClusterSize : SizeInputs,
                 maxClusterSize : SizeInputs,
                 desiredClusterSize : SizeInputs,
                 eksNodeInstanceType : InstanceTypeInputs,
                 vpcNetworkCidr : CidrInputs]

\* Values the engine may report for the created cluster.
ClusterNames == {"eks-cluster-0a1b2c3", "eks-cluster-4d5e6f7"}
ClusterEndpoints == {"https://A1.gr7.us-west-2.eks.amazonaws.com",
                     "https://B2.gr7.us-west-2.eks.amazonaws.com"}
ClusterCAs == {[data |-> "LS0tLS1CRUdJTi"], [data |-> "LS0tLS1FTkQtLS"]}

ClusterAttrs == {"name", "endpoint", "certificateAuthority"}
AttrValues(a) ==
  CASE a = "name" -> ClusterNames
    [] a = "endpoint" -> ClusterEndpoints
    [] a = "certificateAuthority" -> ClusterCAs

(***************************************************************************)
(* JavaScript semantics used by the script.                                *)
(***************************************************************************)
\* JS truthiness of a number or string: 0 and '' are falsy.
FalsyNumber(n) == n = 0
FalsyString(s) == s = ""

\* A fallback that only replaces an absent value (the `??` operator).
NumberOrDefault_Nullish(o, dflt) == IF IsSet(o) THEN Val(o) ELSE dflt

\* config.getNumber(key) || dflt
NumberOrDefault(o, dflt) ==
  IF IsSet(o) /\ ~FalsyNumber(Val(o)) THEN Val(o) ELSE dflt

\* config.get(key) || dflt
StringOrDefault(o, dflt) ==
  IF IsSet(o) /\ ~FalsyString(Val(o)) THEN Val(o) ELSE dflt

\* The JS `/` operator divides numbers exactly (no truncation): the quotient
\* a / b is kept as a fraction and compared by cross-multiplication.
NumberDiv(a, b) == [num |-> a, den |-> b]
NumberEq(q, n) == q.num = n * q.den

\* An Output: attribute attr of the declared resource named res.
Out(res, attr) == [res |-> res, attr |-> attr]

\* A declared resource; deps are the resources whose outputs its args use.
Resource(type, name, args, outs) ==
  [type |-> type, name |-> name, args |-> args,
   deps |-> {outs[i].res : i \in DOMAIN outs}]

(***************************************************************************)
(* The script's literals.                                                  *)
(***************************************************************************)
privateSubnetCidrBlock == <<"10.0.1.0/24", "10.0.2.0/24", "10.0.3.0/24">>
publicSubnetCidrBlock == <<"10.0.101.0/24", "10.0.102.0/24", "10.0.103.0/24">>

DefaultParams ==
  [minClusterSize |-> 3, maxClusterSize |-> 6, desiredClusterSize |-> 3,
   eksNodeInstanceType |-> "t3.medium", vpcNetworkCidr |-> "10.0.0.0/16"]

AssumeRolePolicy(service) ==
  [Version |-> "2012-10-17",
   Statement |-> <<[Action |-> "sts:AssumeRole", Effect |-> "Allow",
                    Principal |-> [Service |-> service]]>>]

NoConfig == [minClusterSize |-> Absent, maxClusterSize |-> Absent,
             desiredClusterSize |-> Absent, eksNodeInstanceType |-> Absent,
             vpcNetworkCidr |-> Absent]

NoExports == [clusterName |-> Absent, clusterArn |-> Absent,
              clusterKubeConfig |-> Absent, vpcId |-> Absent]

Init ==
  /\ pc = "config"
  /\ config = NoConfig
  /\ params = DefaultParams
  /\ resources = <<>>
  /\ privateSubnet = <<>>
  /\ publicSubnet = <<>>
  /\ exports = NoExports
  /\ resolved = [a \in ClusterAttrs |-> Absent]
  /\ clusterFailed = FALSE
  /\ kubeconfig = Absent
  /\ applyCount = 0

engineVars == <<resolved, clusterFailed, kubeconfig, applyCount>>

(***************************************************************************)
(* The script, statement by statement.                                     *)
(***************************************************************************)
\* Lines 5-10: read the stack configuration, falling back to the defaults.
ReadConfig ==
  /\ pc = "config"
  /\ \E c \in ConfigInputs :
       /\ config' = c
       /\ params' =
            [minClusterSize |->
               NumberOrDefault(c.minClusterSize, DefaultParams.minClusterSize),
             maxClusterSize |->
               NumberOrDefault(c.maxClusterSize, DefaultParams.maxClusterSize),
             desiredClusterSize |->
               NumberOrDefault(c.desiredClusterSize,
                               DefaultParams.desiredClusterSize),
             eksNodeInstanceType |->
               StringOrDefault(c.eksNodeInstanceType,
                               DefaultParams.eksNodeInstanceType),
             vpcNetworkCidr |->
               StringOrDefault(c.vpcNetworkCidr, DefaultParams.vpcNetworkCidr)]
  /\ pc' = "vpc"
  /\ UNCHANGED <<resources, privateSubnet, publicSubnet, exports, engineVars>>

\* Lines 13-18.
DeclareVpc ==
  /\ pc = "vpc"
  /\ resources' = Append(resources,
       Resource("aws:ec2/vpc:Vpc", "eks-vpc",
                [tags |-> [name |-> "my-eks-vpc"],
                 cidrBlock |-> params.vpcNetworkCidr],
                <<>>))
  /\ pc' = "privateSubnet"
  /\ UNCHANGED <<config, params, privateSubnet, publicSubnet, exports,
                 engineVars>>

\* The selector with a truncating division.
AvailabilityZone_Truncating(index) ==
  IF index \div 2 = 0 THEN "us-west-2a" ELSE "us-west-2b"

\* Line 38: index / 2 == 0 ? 'us-west-2a' : 'us-west-2b'
AvailabilityZone(index) ==
  IF NumberEq(NumberDiv(index, 2), 0) THEN "us-west-2a" ELSE "us-west-2b"

\* A logical name that leaves out the public/private prefix.
SubnetName_NoPrefix(index, isPublic) == "subnet-" \o ToString(index)

\* Line 34: `${isPublic ? 'public' : 'private'}-subnet-${index}`
SubnetName(index, isPublic) ==
  (IF isPublic THEN "public" ELSE "private") \o "-subnet-" \o ToString(index)

\* Lines 29-42: the subnet declared by createSubnetAndGetID.
SubnetResource(cidrRange, index, isPublic) ==
  Resource("aws:ec2/subnet:Subnet", SubnetName(index, isPublic),
           [vpcId |-> Out("eks-vpc", "id"),
            cidrBlock |-> cidrRange,
            mapPublicIpOnLaunch |-> isPublic,
            availabilityZone |-> AvailabilityZone(index),
            tags |-> [name |-> "my-eks-subnets"]],
           <<Out("eks-vpc", "id")>>)

\* Lines 29-42: the id returned by createSubnetAndGetID.
createSubnetAndGetID(cidrRange, index, isPublic) ==
  Out(SubnetResource(cidrRange, index, isPublic).name, "id")

\* Lines 45-47: one callback of privateSubnetCidrBlock.map (0-based index).
CreatePrivateSubnet ==
  /\ pc = "privateSubnet"
  /\ LET index == Len(privateSubnet)
         subnet == privateSubnetCidrBlock[index + 1]
     IN /\ resources' = Append(resources, SubnetResource(subnet, index, FALSE))
        /\ privateSubnet' =
             Append(privateSubnet, createSubnetAndGetID(subnet, index, FALSE))
        /\ pc' = IF index + 1 = Len(privateSubnetCidrBlock)
                 THEN "publicSubnet" ELSE "privateSubnet"
  /\ UNCHANGED <<config, params, publicSubnet, exports, engineVars>>

\* Lines 50-52: one callback of publicSubnetCidrBlock.map (0-based index).
CreatePublicSubnet ==
  /\ pc = "publicSubnet"
  /\ LET index == Len(publicSubnet)
         subnet == publicSubnetCidrBlock[index + 1]
     IN /\ resources' = Append(resources, SubnetResource(subnet, index, TRUE))
        /\ publicSubnet' =
             Append(publicSubnet, createSubnetAndGetID(subnet, index, TRUE))
        /\ pc' = IF index + 1 = Len(publicSubnetCidrBlock)
                 THEN "clusterRole" ELSE "publicSubnet"
  /\ UNCHANGED <<config, params, privateSubnet, exports, engineVars>>

\* Lines 55-68.
DeclareClusterRole ==
  /\ pc = "clusterRole"
  /\ resources' = Append(resources,
       Resource("aws:iam/role:Role", "eks-cluster-role",
                [assumeRolePolicy |-> AssumeRolePolicy("eks.amazonaws.com")],
                <<>>))
  /\ pc' = "clusterPolicy"
  /\ UNCHANGED <<config, params, privateSubnet, publicSubnet, exports,
                 engineVars>>

\* Lines 71-74, 105-118: a RolePolicyAttachment.
Attachment(name, roleName, policyArn) ==
  Resource("aws:iam/rolePolicyAttachment:RolePolicyAttachment", name,
           [role |-> Out(roleName, "name"), policyArn |-> policyArn],
           <<Out(roleName, "name")>>)

\* Lines 71-74.
AttachClusterPolicy ==
  /\ pc = "clusterPolicy"
  /\ resources' = Append(resources,
       Attachment("cluster-role-policy-attachment", "eks-cluster-role",
                  "arn:aws:iam::aws:policy/AmazonEKSClusterPolicy"))
  /\ pc' = "cluster"
  /\ UNCHANGED <<config, params, privateSubnet, publicSubnet, exports,
                 engineVars>>

\* The public subnets spread before the private ones.
SubnetIds_PublicFirst(private, public) == public \o private

\* Lines 80 and 124: [...privateSubnet, ...publicSubnet]
SubnetIds(private, public) == private \o public

\* Lines 77-86.
DeclareCluster ==
  /\ pc = "cluster"
  /\ LET subnetIds == SubnetIds(privateSubnet, publicSubnet)
     IN resources' = Append(resources,
          Resource("aws:eks/cluster:Cluster", "eks-cluster",
                   [roleArn |-> Out("eks-cluster-role", "arn"),
                    vpcConfig |-> [subnetIds |-> subnetIds],
                    version |-> "1.27",
                    tags |-> [name |-> "my-eks-cluster"]],
                   <<Out("eks-cluster-role", "arn")>> \o subnetIds))
  /\ pc' = "workerRole"
  /\ UNCHANGED <<config, params, privateSubnet, publicSubnet, exports,
                 engineVars>>

\* Lines 89-102.
DeclareWorkerRole ==
  /\ pc = "workerRole"
  /\ resources' = Append(resources,
       Resource("aws:iam/role:Role", "worker-node-role",
                [assumeRolePolicy |-> AssumeRolePolicy("ec2.amazonaws.com")],
                <<>>))
  /\ pc' = "workerPolicy"
  /\ UNCHANGED <<config, params, privateSubnet, publicSubnet, exports,
                 engineVars>>

\* Lines 105-108.
AttachWorkerNodePolicy ==
  /\ pc = "workerPolicy"
  /\ resources' = Append(resources,
       Attachment("worker-node-policy-attachment", "worker-node-role",
                  "arn:aws:iam::aws:policy/AmazonEKSWorkerNodePolicy"))
  /\ pc' = "cniPolicy"
  /\ UNCHANGED <<config, params, privateSubnet, publicSubnet, exports,
                 engineVars>>

\* A script that forgets the CNI policy attachment.
AttachCniPolicy_Missing ==
  /\ pc = "cniPolicy"
  /\ pc' = "registryPolicy"
  /\ UNCHANGED <<config, params, resources, privateSubnet, publicSubnet,
                 exports, engineVars>>

\* Lines 110-113.
AttachCniPolicy ==
  /\ pc = "cniPolicy"
  /\ resources' = Append(resources,
       Attachment("cni-policy-attachment", "worker-node-role",
                  "arn:aws:iam::aws:policy/AmazonEKS_CNI_Policy"))
  /\ pc' = "registryPolicy"
  /\ UNCHANGED <<config, params, privateSubnet, publicSubnet, exports,
                 engineVars>>

\* Lines 115-118.
AttachRegistryPolicy ==
  /\ pc = "registryPolicy"
  /\ resources' = Append(resources,
       Attachment("container-registry-policy-attachment", "worker-node-role",
                  "arn:aws:iam::aws:policy/AmazonEC2ContainerRegistryReadOnly"))
  /\ pc' = "nodeGroup"
  /\ UNCHANGED <<config, params, privateSubnet, publicSubnet, exports,
                 engineVars>>

\* A scaling configuration with the maximum and the desired size exchanged.
ScalingConfig_Exchanged(p) ==
  [desiredSize |-> p.maxClusterSize,
   maxSize |-> p.desiredClusterSize,
   minSize |-> p.minClusterSize]

\* Lines 125-129.
ScalingConfig(p) ==
  [desiredSize |-> p.desiredClusterSize,
   maxSize |-> p.maxClusterSize,
   minSize |-> p.minClusterSize]

\* Lines 121-131.
DeclareNodeGroup ==
  /\ pc = "nodeGroup"
  /\ LET subnetIds == SubnetIds(privateSubnet, publicSubnet)
     IN resources' = Append(resources,
          Resource("aws:eks/nodeGroup:NodeGroup", "worker-node-group",
                   [clusterName |-> Out("eks-cluster", "name"),
                    nodeRoleArn |-> Out("worker-node-role", "arn"),
                    subnetIds |-> subnetIds,
                    scalingConfig |-> ScalingConfig(params),
                    instanceTypes |-> <<params.eksNodeInstanceType>>],
                   <<Out("eks-cluster", "name"),
                     Out("worker-node-role", "arn")>> \o subnetIds))
  /\ pc' = "exports"
  /\ UNCHANGED <<config, params, privateSubnet, publicSubnet, exports,
                 engineVars>>

\* Lines 134-136: the outputs pulumi.all waits for.
KubeconfigInputs == <<Out("eks-cluster", "name"), Out("eks-cluster", "endpoint"),
                      Out("eks-cluster", "certificateAuthority")>>

\* Lines 134-136, 172-175: register the derived output and the stack exports.
Export ==
  /\ pc = "exports"
  /\ exports' = [clusterName |-> Some(Out("eks-cluster", "name")),
                 clusterArn |-> Some(Out("eks-cluster", "arn")),
                 clusterKubeConfig |-> Some(KubeconfigInputs),
                 vpcId |-> Some(Out("eks-vpc", "id"))]
  /\ pc' = "done"
  /\ UNCHANGED <<config, params, resources, privateSubnet, publicSubnet,
                 engineVars>>

(***************************************************************************)
(* The engine: attributes of the cluster become known one at a time, or    *)
(* the deployment fails and the remaining ones never do.                   *)
(***************************************************************************)
ResolveAttr ==
  /\ pc = "done"
  /\ ~clusterFailed
  /\ \E a \in ClusterAttrs :
       /\ ~IsSet(resolved[a])
       /\ \E v \in AttrValues(a) :
            resolved' = [resolved EXCEPT ![a] = Some(v)]
  /\ UNCHANGED <<pc, config, params, resources, privateSubnet, publicSubnet,
                 exports, clusterFailed, kubeconfig, applyCount>>

ClusterFails ==
  /\ pc = "done"
  /\ ~clusterFailed
  /\ \E a \in ClusterAttrs : ~IsSet(resolved[a])
  /\ clusterFailed' = TRUE
  /\ UNCHANGED <<pc, config, params, resources, privateSubnet, publicSubnet,
                 exports, resolved, kubeconfig, applyCount>>

\* A document whose current-context names the cluster entry.
Kubeconfig_ContextMixup(clusterName, clusterEndpoint, clusterCA) ==
  [apiVersion |-> "v1",
   clusters |-> <<[cluster |-> ("server" :> clusterEndpoint @@
                                "certificate-authority-data" :> clusterCA.data),
                   name |-> "kubernetes"]>>,
   contexts |-> <<[context |-> [cluster |-> "kubernetes", user |-> "aws"],
                   name |-> "aws"]>>,
   kind |-> "Config",
   users |-> <<[name |-> "aws",
                user |-> [exec |->
                  [apiVersion |-> "client.authentication.k8s.io/v1alpha1",
                   command |-> "aws",
                   args |-> <<"eks", "get-token", "--cluster-name",
                              clusterName>>]]]>>]
  @@ ("current-context" :> "kubernetes")

\* Lines 136-169: the document built by the apply callback.
Kubeconfig(clusterName, clusterEndpoint, clusterCA) ==
  [apiVersion |-> "v1",
   clusters |-> <<[cluster |-> ("server" :> clusterEndpoint @@
                                "certificate-authority-data" :> clusterCA.data),
                   name |-> "kubernetes"]>>,
   contexts |-> <<[context |-> [cluster |-> "kubernetes", user |-> "aws"],
                   name |-> "aws"]>>,
   kind |-> "Config",
   users |-> <<[name |-> "aws",
                user |-> [exec |->
                  [apiVersion |-> "client.authentication.k8s.io/v1alpha1",
                   command |-> "aws",
                   args |-> <<"eks", "get-token", "--cluster-name",
                              clusterName>>]]]>>]
  @@ ("current-context" :> "aws")

\* Line 135: pulumi.all([...]) is known once every listed output is known.
AllKnown(outs) == \A i \in DOMAIN outs : IsSet(resolved[outs[i].attr])

\* A callback that runs as soon as the cluster's name is known.
ApplyKubeconfig_Early ==
  /\ pc = "done"
  /\ IsSet(exports.clusterKubeConfig)
  /\ IsSet(resolved["name"])
  /\ ~IsSet(kubeconfig)
  /\ kubeconfig' = Some(Kubeconfig(Val(resolved["name"]), "", [data |-> ""]))
  /\ applyCount' = applyCount + 1
  /\ UNCHANGED <<pc, config, params, resources, privateSubnet, publicSubnet,
                 exports, resolved, clusterFailed>>

\* Lines 134-169: the apply callback runs once, when pulumi.all is known.
ApplyKubeconfig ==
  /\ pc = "done"
  /\ IsSet(exports.clusterKubeConfig)
  /\ AllKnown(Val(exports.clusterKubeConfig))
  /\ ~IsSet(kubeconfig)
  /\ kubeconfig' = Some(Kubeconfig(Val(resolved["name"]),
                                   Val(resolved["endpoint"]),
                                   Val(resolved["certificateAuthority"])))
  /\ applyCount' = applyCount + 1
  /\ UNCHANGED <<pc, config, params, resources, privateSubnet, publicSubnet,
                 exports, resolved, clusterFailed>>

Next ==
  \/ ReadConfig
  \/ DeclareVpc
  \/ CreatePrivateSubnet
  \/ CreatePublicSubnet
  \/ DeclareClusterRole
  \/ AttachClusterPolicy
  \/ DeclareCluster
  \/ DeclareWorkerRole
  \/ AttachWorkerNodePolicy
  \/ AttachCniPolicy
  \/ AttachRegistryPolicy
  \/ DeclareNodeGroup
  \/ Export
  \/ ResolveAttr
  \/ ClusterFails
  \/ ApplyKubeconfig

Spec == Init /\ [][Next]_vars

(***************************************************************************)
(* Vocabulary of the properties.                                           *)
(***************************************************************************)
VpcType == "aws:ec2/vpc:Vpc"
SubnetType == "aws:ec2/subnet:Subnet"
RoleType == "aws:iam/role:Role"
AttachmentType == "aws:iam/rolePolicyAttachment:RolePolicyAttachment"
ClusterType == "aws:eks/cluster:Cluster"
NodeGroupType == "aws:eks/nodeGroup:NodeGroup"

ResourceTypes == {VpcType, SubnetType, RoleType, AttachmentType, ClusterType,
                  NodeGroupType}

\* Positions of the declared resources of a type.
OfType(t) == {i \in DOMAIN resources : resources[i].type = t}
Declared(name) == \E i \in DOMAIN resources : resources[i].name = name
Lookup(name) == resources[CHOOSE i \in DOMAIN resources :
                            resources[i].name = name]
NamesDistinct ==
  \A i, j \in DOMAIN resources :
     (resources[i].type = resources[j].type
        /\ resources[i].name = resources[j].name) => i = j
ScriptFinished == pc = "done"

Vpc == Lookup("eks-vpc")
Cluster == Lookup("eks-cluster")
NodeGroup == Lookup("worker-node-group")
SubnetsWhere(isPublic) ==
  {i \in OfType(SubnetType) : resources[i].args.mapPublicIpOnLaunch = isPublic}
AttachmentsOn(roleName) ==
  {i \in OfType(AttachmentType) : resources[i].args.role = Out(roleName, "name")}

\* The resource counts common to the stated and the amended inventory.
InventoryButAttachments ==
  /\ Cardinality(OfType(VpcType)) = 1
  /\ Cardinality(OfType(SubnetType)) = 6
  /\ Cardinality(SubnetsWhere(FALSE)) = 3
  /\ Cardinality(SubnetsWhere(TRUE)) = 3
  /\ Cardinality(OfType(RoleType)) = 2
  /\ Cardinality(OfType(ClusterType)) = 1
  /\ Cardinality(OfType(NodeGroupType)) = 1
  /\ \A i \in DOMAIN resources : resources[i].type \in ResourceTypes
  /\ NamesDistinct

\* C1 as stated: a finished run has declared one VPC, six subnets (three
\* private, three public), two roles with three policy attachments in total,
\* one cluster and one node group, nothing else and nothing twice.
C1_ThreeAttachments ==
  ScriptFinished =>
    /\ InventoryButAttachments
    /\ Cardinality(OfType(AttachmentType)) = 3
    /\ Len(resources) = 14

\* C1 amended: a finished run has declared one VPC, six subnets (three
\* private, three public), two roles with four policy attachments in total
\* (one on the cluster role, three on the worker role), one cluster and one
\* node group, nothing else and nothing twice.
C1_Inventory ==
  ScriptFinished =>
    /\ InventoryButAttachments
    /\ Cardinality(OfType(AttachmentType)) = 4
    /\ Cardinality(AttachmentsOn("eks-cluster-role")) = 1
    /\ Cardinality(AttachmentsOn("worker-node-role")) = 3
    /\ Len(resources) = 15

C1_Witness ==
  /\ ScriptFinished
  /\ IsSet(config.eksNodeInstanceType)
  /\ Cardinality(OfType(AttachmentType)) = 4

\* C2: the scaling configuration passed to the worker node group satisfies
\* minSize <= desiredSize <= maxSize, whatever sizing parameters are provided.
C2_ScalingOrdered ==
  Declared("worker-node-group") =>
    LET sc == NodeGroup.args.scalingConfig
    IN sc.minSize <= sc.desiredSize /\ sc.desiredSize <= sc.maxSize

(***************************************************************************)
(* CIDR notation: "a.b.c.d/len" denotes the addresses that share the first *)
(* len bits of a.b.c.d.  An address is kept as two 16-bit halves.          *)
(***************************************************************************)
Digit(c) ==
  CASE c = "0" -> 0 [] c = "1" -> 1 [] c = "2" -> 2 [] c = "3" -> 3
    [] c = "4" -> 4 [] c = "5" -> 5 [] c = "6" -> 6 [] c = "7" -> 7
    [] c = "8" -> 8 [] c = "9" -> 9

RECURSIVE ParseNat(_)
ParseNat(s) ==
  IF Len(s) = 0 THEN 0
  ELSE 10 * ParseNat(SubSeq(s, 1, Len(s) - 1)) + Digit(SubSeq(s, Len(s), Len(s)))

\* The fields of s between occurrences of the one-character separator sep.
RECURSIVE Split(_, _)
Split(s, sep) ==
  LET hits == {i \in 1..Len(s) : SubSeq(s, i, i) = sep}
  IN IF hits = {} THEN <<s>>
     ELSE LET k == CHOOSE i \in hits : \A j \in hits : i <= j
          IN <<SubSeq(s, 1, k - 1)>> \o Split(SubSeq(s, k + 1, Len(s)), sep)

ParseCidr(s) ==
  LET parts == Split(s, "/")
      o == Split(parts[1], ".")
  IN [hi |-> 256 * ParseNat(o[1]) + ParseNat(o[2]),
      lo |-> 256 * ParseNat(o[3]) + ParseNat(o[4]),
      len |-> ParseNat(parts[2])]

RECURSIVE Pow2(_)
Pow2(n) == IF n = 0 THEN 1 ELSE 2 * Pow2(n - 1)

\* The first n bits of the address of block c.
NetPrefix(c, n) ==
  IF n <= 16 THEN <<c.hi \div Pow2(16 - n), 0>>
  ELSE <<c.hi, c.lo \div Pow2(32 - n)>>

CidrContains(outer, inner) ==
  /\ outer.len <= inner.len
  /\ NetPrefix(inner, outer.len) = NetPrefix(outer, outer.len)

CidrDisjoint(a, b) == ~CidrContains(a, b) /\ ~CidrContains(b, a)

SubnetsDeclared == Cardinality(OfType(SubnetType)) = 6

\* C3: the six subnet address ranges are pairwise disjoint and each lies
\* within the VPC's cidrBlock, whatever vpcNetworkCidr is configured.
C3_SubnetsInsideVpc ==
  SubnetsDeclared =>
    /\ \A i, j \in OfType(SubnetType) :
         i # j => CidrDisjoint(ParseCidr(resources[i].args.cidrBlock),
                               ParseCidr(resources[j].args.cidrBlock))
    /\ \A i \in OfType(SubnetType) :
         CidrContains(ParseCidr(Vpc.args.cidrBlock),
                      ParseCidr(resources[i].args.cidrBlock))

\* The subnet declared for position k (1-based) of a list of subnet ids.
SubnetAt(ids, k) == Lookup(ids[k].res)
ZoneAt(ids, k) == SubnetAt(ids, k).args.availabilityZone

\* C4 as stated: in both lists the subnets at index 0 and index 1 are in
\* us-west-2a and the subnet at index 2 is in us-west-2b.
C4_FirstTwoInZoneA ==
  \A ids \in {privateSubnet, publicSubnet} : \A k \in DOMAIN ids :
     ZoneAt(ids, k) = IF k - 1 \in {0, 1} THEN "us-west-2a" ELSE "us-west-2b"

\* C4 amended: in both lists only the subnet at index 0 is in us-west-2a;
\* the subnets at index 1 and index 2 are in us-west-2b.
C4_OnlyFirstInZoneA ==
  \A ids \in {privateSubnet, publicSubnet} : \A k \in DOMAIN ids :
     ZoneAt(ids, k) = IF k - 1 = 0 THEN "us-west-2a" ELSE "us-west-2b"

C4_Witness ==
  /\ Len(privateSubnet) = 3
  /\ Len(publicSubnet) = 3
  /\ ZoneAt(privateSubnet, 2) = "us-west-2b"
  /\ ZoneAt(publicSubnet, 2) = "us-west-2b"

\* A provided value that is neither falsy nor the default.
ProvidedNumber(o, dflt) == IsSet(o) /\ Val(o) # 0 /\ Val(o) # dflt
ProvidedString(o, dflt) == IsSet(o) /\ Val(o) # "" /\ Val(o) # dflt

\* What C5 expects to reach a resource for a key read as o.
ExpectedNumber(o, dflt, actual) ==
  /\ o = Absent => actual = dflt
  /\ ProvidedNumber(o, dflt) => actual = Val(o)
ExpectedString(o, dflt, actual) ==
  /\ o = Absent => actual = dflt
  /\ ProvidedString(o, dflt) => actual = Val(o)

\* C5: an absent key yields the default (3, 6, 3, 't3.medium',
\* '10.0.0.0/16'); a provided valid non-default value reaches the node
\* group's scalingConfig / instanceTypes and the VPC's cidrBlock.
C5_DefaultsAndOverrides ==
  /\ Declared("eks-vpc") =>
       ExpectedString(config.vpcNetworkCidr, "10.0.0.0/16", Vpc.args.cidrBlock)
  /\ Declared("worker-node-group") =>
       LET a == NodeGroup.args
       IN /\ ExpectedNumber(config.minClusterSize, 3, a.scalingConfig.minSize)
          /\ ExpectedNumber(config.maxClusterSize, 6, a.scalingConfig.maxSize)
          /\ ExpectedNumber(config.desiredClusterSize, 3,
                            a.scalingConfig.desiredSize)
          /\ Len(a.instanceTypes) = 1
          /\ ExpectedString(config.eksNodeInstanceType, "t3.medium",
                            a.instanceTypes[1])

C5_Witness ==
  /\ Declared("worker-node-group")
  /\ config.minClusterSize = Absent
  /\ config.maxClusterSize = Some(4)
  /\ config.eksNodeInstanceType = Some("m5.large")
  /\ config.vpcNetworkCidr = Some("10.0.0.0/8")
  /\ NodeGroup.args.scalingConfig.maxSize = 4
  /\ NodeGroup.args.scalingConfig.minSize = 3

\* The value the engine has resolved for an exported cluster output.
ExportedValue(o) == Val(resolved[Val(o).attr])

\* C6: the exported kubeconfig has exactly one cluster entry, one context
\* and one user; current-context is that context's name; the context names
\* the cluster entry and the user entry; server and
\* certificate-authority-data are the cluster's endpoint and CA data; and
\* the exec plugin's --cluster-name argument is the exported clusterName.
C6_KubeconfigShape ==
  IsSet(kubeconfig) =>
    LET k == Val(kubeconfig)
        args == k.users[1].user.exec.args
    IN /\ Len(k.clusters) = 1
       /\ Len(k.contexts) = 1
       /\ Len(k.users) = 1
       /\ k["current-context"] = k.contexts[1].name
       /\ k.contexts[1].context.cluster = k.clusters[1].name
       /\ k.contexts[1].context.user = k.users[1].name
       /\ k.clusters[1].cluster["server"] = Val(resolved["endpoint"])
       /\ k.clusters[1].cluster["certificate-authority-data"]
            = Val(resolved["certificateAuthority"]).data
       /\ \E i \in 1..(Len(args) - 1) :
            /\ args[i] = "--cluster-name"
            /\ args[i + 1] = ExportedValue(exports.clusterName)
       /\ Val(exports.clusterName).res = Cluster.name

C6_Witness ==
  /\ IsSet(kubeconfig)
  /\ Val(resolved["name"]) = "eks-cluster-4d5e6f7"
  /\ Val(kubeconfig).users[1].user.exec.args[4] = "eks-cluster-4d5e6f7"

AllResolved == \A a \in ClusterAttrs : IsSet(resolved[a])

\* C7: the kubeconfig is produced only after the cluster's name, endpoint
\* and certificateAuthority are all available, in whatever order they
\* arrive; it is produced at most once; it is never produced when one of
\* them never resolves; and once produced it never changes.
C7_ProducedOnceAfterAll ==
  /\ [](IsSet(kubeconfig) => AllResolved)
  /\ [](applyCount <= 1 /\ (IsSet(kubeconfig) <=> applyCount = 1))
  /\ []((clusterFailed /\ ~AllResolved) => ~IsSet(kubeconfig))
  /\ [][IsSet(kubeconfig) => kubeconfig' = kubeconfig]_vars
  /\ [][(clusterFailed /\ ~AllResolved) => (clusterFailed' /\ ~AllResolved')]_vars

C7_Witness ==
  /\ IsSet(kubeconfig)
  /\ applyCount = 1
  /\ AllResolved

ExpectedPrivateNames == <<"private-subnet-0", "private-subnet-1",
                          "private-subnet-2">>
ExpectedPublicNames == <<"public-subnet-0", "public-subnet-1",
                         "public-subnet-2">>

\* The subnet made for position k of a list is the one C8 describes.
SubnetAsCalled(ids, k, cidrs, names, isPublic) ==
  LET r == SubnetAt(ids, k)
  IN /\ ids[k] = Out(names[k], "id")
     /\ r.type = SubnetType
     /\ r.name = names[k]
     /\ r.args.mapPublicIpOnLaunch = isPublic
     /\ r.args.cidrBlock = cidrs[k]
     /\ r.args.vpcId = Out(Vpc.name, "id")
     /\ Vpc.type = VpcType

\* C8: every subnet made by createSubnetAndGetID(cidr, index, isPublic) is
\* named 'public-subnet-<index>' or 'private-subnet-<index>' by isPublic,
\* has mapPublicIpOnLaunch = isPublic, cidrBlock = cidr and the one VPC's
\* id; so the six names are pairwise distinct, exactly the three built from
\* publicSubnetCidrBlock are public and exactly the three built from
\* privateSubnetCidrBlock are private.
C8_SubnetMapping ==
  /\ \A k \in DOMAIN privateSubnet :
       SubnetAsCalled(privateSubnet, k, privateSubnetCidrBlock,
                      ExpectedPrivateNames, FALSE)
  /\ \A k \in DOMAIN publicSubnet :
       SubnetAsCalled(publicSubnet, k, publicSubnetCidrBlock,
                      ExpectedPublicNames, TRUE)
  /\ Cardinality(OfType(SubnetType)) = Len(privateSubnet) + Len(publicSubnet)
  /\ Cardinality({resources[i].name : i \in OfType(SubnetType)})
       = Cardinality(OfType(SubnetType))
  /\ SubnetsDeclared =>
       /\ Cardinality(OfType(VpcType)) = 1
       /\ {resources[i].args.cidrBlock : i \in SubnetsWhere(TRUE)}
            = {publicSubnetCidrBlock[k] : k \in 1..3}
       /\ {resources[i].args.cidrBlock : i \in SubnetsWhere(FALSE)}
            = {privateSubnetCidrBlock[k] : k \in 1..3}
       /\ Cardinality(SubnetsWhere(TRUE)) = 3
       /\ Cardinality(SubnetsWhere(FALSE)) = 3

C8_Witness ==
  /\ SubnetsDeclared
  /\ SubnetAt(publicSubnet, 3).name = "public-subnet-2"
  /\ SubnetAt(privateSubnet, 3).args.cidrBlock = "10.0.3.0/24"

ExpectedSubnetIds ==
  <<Out("private-subnet-0", "id"), Out("private-subnet-1", "id"),
    Out("private-subnet-2", "id"), Out("public-subnet-0", "id"),
    Out("public-subnet-1", "id"), Out("public-subnet-2", "id")>>

\* Every resource is declared after the resources it references.
DeclaredAfterReferences ==
  \A i \in DOMAIN resources : \A d \in resources[i].deps :
     \E j \in 1..(i - 1) : resources[j].name = d

\* C10: the cluster's vpcConfig.subnetIds and the node group's subnetIds are
\* the same six ids, the three private ones in privateSubnetCidrBlock order
\* followed by the three public ones in publicSubnetCidrBlock order, all of
\* subnets of the one VPC; and every resource is declared after the
\* resources it references, so the reference graph is acyclic.
C10_SubnetIdsAndOrder ==
  /\ DeclaredAfterReferences
  /\ Declared("eks-cluster") =>
       /\ Cluster.args.vpcConfig.subnetIds = ExpectedSubnetIds
       /\ \A k \in 1..3 :
            /\ Lookup(ExpectedSubnetIds[k].res).args.cidrBlock
                 = privateSubnetCidrBlock[k]
            /\ Lookup(ExpectedSubnetIds[3 + k].res).args.cidrBlock
                 = publicSubnetCidrBlock[k]
       /\ \A k \in 1..6 :
            /\ Lookup(ExpectedSubnetIds[k].res).type = SubnetType
            /\ Lookup(ExpectedSubnetIds[k].res).args.vpcId = Out("eks-vpc", "id")
       /\ Cardinality(OfType(VpcType)) = 1
       /\ {"eks-cluster-role"} \cup {ExpectedSubnetIds[k].res : k \in 1..6}
            \subseteq Cluster.deps
  /\ Declared("worker-node-group") =>
       /\ NodeGroup.args.subnetIds = Cluster.args.vpcConfig.subnetIds
       /\ {"eks-cluster", "worker-node-role"} \subseteq NodeGroup.deps

C10_Witness ==
  /\ Declared("worker-node-group")
  /\ Len(NodeGroup.args.subnetIds) = 6
  /\ NodeGroup.args.subnetIds[4] = Out("public-subnet-0", "id")

\* C9: a provided falsy value is treated like an absent one: a sizing
\* parameter of 0 is replaced by its default (3, 6, 3) and an empty
\* eksNodeInstanceType or vpcNetworkCidr by 't3.medium' or '10.0.0.0/16';
\* hence minSize, maxSize and desiredSize are never 0.
C9_FalsyFallsBack ==
  /\ Declared("eks-vpc") =>
       (config.vpcNetworkCidr = Some("") => Vpc.args.cidrBlock = "10.0.0.0/16")
  /\ Declared("worker-node-group") =>
       LET a == NodeGroup.args
           sc == a.scalingConfig
       IN /\ config.minClusterSize = Some(0) => sc.minSize = 3
          /\ config.maxClusterSize = Some(0) => sc.maxSize = 6
          /\ config.desiredClusterSize = Some(0) => sc.desiredSize = 3
          /\ config.eksNodeInstanceType = Some("")
               => a.instanceTypes = <<"t3.medium">>
          /\ sc.minSize # 0 /\ sc.maxSize # 0 /\ sc.desiredSize # 0

C9_Witness ==
  /\ Declared("worker-node-group")
  /\ config.minClusterSize = Some(0)
  /\ config.maxClusterSize = Some(0)
  /\ config.desiredClusterSize = Some(0)
  /\ config.eksNodeInstanceType = Some("")
  /\ config.vpcNetworkCidr = Some("")
  /\ NodeGroup.args.scalingConfig.maxSize = 6

====
